---- MODULE Spec2Model ----
(***************************************************************************)
(* Credential registry and request dispatch of the OneSignal MCP server.   *)
(* Two implementations live in the repository: the single-file server      *)
(* (onesignal_server.py, "mono") and the modular package                   *)
(* (onesignal_refactored, "mod").  A behaviour runs one of them.           *)
(***************************************************************************)
EXTENDS Integers, Sequences, FiniteSets, TLC

VARIABLES impl, started, ONESIGNAL_ORG_API_KEY, app_configs, current_app_key,
          pc, call, ret, http, detail

vars == <<impl, started, ONESIGNAL_ORG_API_KEY, app_configs, current_app_key,
          pc, call, ret, http, detail>>

(* ---------------------------------------------------------------------- *)
(* Bounds and input sets                                                   *)
(* ---------------------------------------------------------------------- *)

\* largest number of profiles a tool call may grow the registry to
MaxApps == 2

\* longest endpoint, in tokens, the classifier is exercised on
MaxEpLen == 5

\* Python's None
None == "<None>"

\* Python truthiness of an optional string
Truthy(s) == s # None /\ s # ""

\* Python's `a or b` on strings
OrElse(a, b) == IF Truthy(a) THEN a ELSE b

Impls == {"mono", "mod"}

\* application keys the tools are called with ("" is the empty string)
ToolKeys == {"acme", "weirdbrains", ""}

OrgKeys == {"", "org-key", "os_v2_org"}

(* ---------------------------------------------------------------------- *)
(* The profile mapping: a Python dict, kept in insertion order             *)
(* ---------------------------------------------------------------------- *)

AppConfig(key, app_id, api_key, name) ==
    [key |-> key, app_id |-> app_id, api_key |-> api_key, name |-> name]

\* None where an AppConfig is expected
NoAppConfig == AppConfig(None, None, None, None)

KeysOf(d) == [i \in 1..Len(d) |-> d[i].key]

KeySet(d) == {d[i].key : i \in 1..Len(d)}

HasKey(d, k) == k \in KeySet(d)

Lookup(d, k) == d[CHOOSE i \in 1..Len(d) : d[i].key = k]

\* d[k] = cfg: in place when k is present, appended otherwise
DictSet(d, cfg) ==
    IF HasKey(d, cfg.key)
    THEN [i \in 1..Len(d) |-> IF d[i].key = cfg.key THEN cfg ELSE d[i]]
    ELSE Append(d, cfg)

\* del d[k]
DictDel(d, k) == SelectSeq(d, LAMBDA e : e.key # k)

\* [x for x in d.keys() if x != k]
OtherKeys(d, k) == SelectSeq(KeysOf(d), LAMBDA x : x # k)

Registry(cfgs, cur) == [app_configs |-> cfgs, current_app_key |-> cur]

(* ---------------------------------------------------------------------- *)
(* Start-up: the configuration read from the environment                   *)
(* ---------------------------------------------------------------------- *)

\* a variable is either unset ("" is what os.getenv(name, "") gives) or set
Envs ==
    [PRIMARY_APP_ID : {"", "app-1"}, PRIMARY_API_KEY : {"", "key-1"},
     WEIRDBRAINS_APP_ID : {"", "app-2"}, WEIRDBRAINS_API_KEY : {"", "os_v2_k2"},
     APP_ID : {"", "app-2"}, API_KEY : {"", "key-1"},
     ORG_API_KEY : OrgKeys]

\* a module-level name that no assignment has bound yet
Unbound == "<unbound>"

\* module-level configuration of the single-file server; reading the unbound
\* current_app_key raises NameError and the process never starts
LoadMono(env) ==
    LET a_id == OrElse(env.PRIMARY_APP_ID, env.APP_ID)
        a_key == OrElse(env.PRIMARY_API_KEY, env.API_KEY)
        s0 == [cfgs |-> <<>>, cur |-> Unbound, crashed |-> FALSE]
        s1 == IF Truthy(a_id) /\ Truthy(a_key)
              THEN [s0 EXCEPT !.cfgs = DictSet(@, AppConfig("aibookcraft", a_id, a_key, "AIBookCraft")),
                              !.cur = "aibookcraft"]
              ELSE s0
        s2 == IF Truthy(env.WEIRDBRAINS_APP_ID) /\ Truthy(env.WEIRDBRAINS_API_KEY)
              THEN IF s1.cur = Unbound
                   THEN [s1 EXCEPT !.cfgs = DictSet(@, AppConfig("weirdbrains", env.WEIRDBRAINS_APP_ID,
                                                                 env.WEIRDBRAINS_API_KEY, "Weird Brains")),
                                   !.crashed = TRUE]
                   ELSE [s1 EXCEPT !.cfgs = DictSet(@, AppConfig("weirdbrains", env.WEIRDBRAINS_APP_ID,
                                                                 env.WEIRDBRAINS_API_KEY, "Weird Brains")),
                                   !.cur = IF ~Truthy(@) THEN "weirdbrains" ELSE @]
              ELSE s1
        s3 == IF s2.crashed \/ s2.cfgs # <<>>
              THEN s2
              ELSE IF Truthy(env.APP_ID) /\ Truthy(env.API_KEY)
                   THEN [s2 EXCEPT !.cfgs = DictSet(@, AppConfig("default", env.APP_ID, env.API_KEY, "Default App")),
                                   !.cur = "default"]
                   ELSE [s2 EXCEPT !.cur = None]
    IN  s3

\* AppManager.add_app: no check of the key, an existing entry is overwritten
AppManager_add_app(cfgs, key, app_id, api_key, name) ==
    DictSet(cfgs, AppConfig(key, app_id, api_key, OrElse(name, key)))

\* AppManager.__init__ and _load_from_environment
LoadMod(env) ==
    LET m_id == OrElse(env.PRIMARY_APP_ID, env.APP_ID)
        m_key == OrElse(env.PRIMARY_API_KEY, env.API_KEY)
        s0 == [cfgs |-> <<>>, cur |-> None, crashed |-> FALSE]
        s1 == IF Truthy(m_id) /\ Truthy(m_key)
              THEN [s0 EXCEPT !.cfgs = AppManager_add_app(@, "mandible", m_id, m_key, "Mandible"),
                              !.cur = "mandible"]
              ELSE s0
        s2 == IF Truthy(env.WEIRDBRAINS_APP_ID) /\ Truthy(env.WEIRDBRAINS_API_KEY)
              THEN [s1 EXCEPT !.cfgs = AppManager_add_app(@, "weirdbrains", env.WEIRDBRAINS_APP_ID,
                                                          env.WEIRDBRAINS_API_KEY, "Weird Brains"),
                              !.cur = IF ~Truthy(@) THEN "weirdbrains" ELSE @]
              ELSE s1
        s3 == IF s2.cfgs # <<>>
              THEN s2
              ELSE IF Truthy(env.APP_ID) /\ Truthy(env.API_KEY)
                   THEN [s2 EXCEPT !.cfgs = AppManager_add_app(@, "default", env.APP_ID, env.API_KEY, "Default App"),
                                   !.cur = "default"]
                   ELSE s2
    IN  s3

Load(i, env) == IF i = "mono" THEN LoadMono(env) ELSE LoadMod(env)

\* a params or data dictionary, as far as app_id goes: no dictionary at all
\* (None), a dictionary without "app_id", a dictionary with it
NoPayload == [dict |-> FALSE, has |-> FALSE, app_id |-> None]

EmptyDict == [dict |-> TRUE, has |-> FALSE, app_id |-> None]

WithAppId(id) == [dict |-> TRUE, has |-> TRUE, app_id |-> id]

\* the record of the last call and of what it returned
NoCall == [op |-> "none", key |-> None, app_id |-> None, api_key |-> None, name |-> None,
           endpoint |-> <<>>, method |-> None, use_org_key |-> None,
           data |-> NoPayload, params |-> NoPayload]

\* what a call that is no dispatch leaves as detail of its result
NoDetail == [status_code |-> 0, auth_type |-> None, message |-> <<>>,
             params |-> NoPayload, data |-> NoPayload]

\* the state after the module has been imported under `env`
Loaded(i, env) ==
    /\ impl = i
    /\ started = ~Load(i, env).crashed
    /\ ONESIGNAL_ORG_API_KEY = env.ORG_API_KEY
    /\ app_configs = Load(i, env).cfgs
    /\ current_app_key = Load(i, env).cur
    /\ pc = "idle"
    /\ ret = None
    /\ http = <<>>
    /\ detail = NoDetail

Init == \E i \in Impls, env \in Envs : Loaded(i, env) /\ call = NoCall

(* ---------------------------------------------------------------------- *)
(* Registry operations.  Each takes the registry and the arguments and     *)
(* gives the registry after the call together with what the call returns.  *)
(* ---------------------------------------------------------------------- *)

Outcome(cfgs, cur, r) == [app_configs |-> cfgs, current_app_key |-> cur, ret |-> r]

\* add_app_config of the single-file server
add_app_config(cfgs, key, app_id, api_key, name) ==
    DictSet(cfgs, AppConfig(key, app_id, api_key, OrElse(name, key)))

\* add_app without the check of the key: an existing profile is overwritten
add_app_NoDuplicateCheck(reg, key, app_id, api_key, name) ==
    IF ~Truthy(key) \/ ~Truthy(app_id) \/ ~Truthy(api_key)
    THEN Outcome(reg.app_configs, reg.current_app_key, "MissingParams")
    ELSE LET cfgs == add_app_config(reg.app_configs, key, app_id, api_key, name)
         IN  Outcome(cfgs, IF Len(cfgs) = 1 THEN key ELSE reg.current_app_key, "ok")

\* add_app without the step that makes the first profile current
add_app_NeverCurrent(reg, key, app_id, api_key, name) ==
    IF ~Truthy(key) \/ ~Truthy(app_id) \/ ~Truthy(api_key)
    THEN Outcome(reg.app_configs, reg.current_app_key, "MissingParams")
    ELSE IF HasKey(reg.app_configs, key)
    THEN Outcome(reg.app_configs, reg.current_app_key, "DuplicateKey")
    ELSE Outcome(add_app_config(reg.app_configs, key, app_id, api_key, name), reg.current_app_key, "ok")

\* tool add_app of the single-file server
add_app(reg, key, app_id, api_key, name) ==
    IF ~Truthy(key) \/ ~Truthy(app_id) \/ ~Truthy(api_key)
    THEN Outcome(reg.app_configs, reg.current_app_key, "MissingParams")
    ELSE IF HasKey(reg.app_configs, key)
    THEN Outcome(reg.app_configs, reg.current_app_key, "DuplicateKey")
    ELSE LET cfgs == add_app_config(reg.app_configs, key, app_id, api_key, name)
         IN  Outcome(cfgs, IF Len(cfgs) = 1 THEN key ELSE reg.current_app_key, "ok")

\* set_current_app without the membership test
AppManager_set_current_app_Unchecked(reg, key) ==
    Outcome(reg.app_configs, key, "True")

\* AppManager.set_current_app
AppManager_set_current_app(reg, key) ==
    IF HasKey(reg.app_configs, key)
    THEN Outcome(reg.app_configs, key, "True")
    ELSE Outcome(reg.app_configs, reg.current_app_key, "False")

\* add_app that makes every added profile current
refactored_add_app_AlwaysCurrent(reg, key, app_id, api_key, name) ==
    IF ~(Truthy(key) /\ Truthy(app_id) /\ Truthy(api_key))
    THEN Outcome(reg.app_configs, reg.current_app_key, "MissingParams")
    ELSE IF HasKey(reg.app_configs, key)
    THEN Outcome(reg.app_configs, reg.current_app_key, "DuplicateKey")
    ELSE Outcome(AppManager_add_app(reg.app_configs, key, app_id, api_key, name), key, "ok")

\* tool add_app of the modular package
refactored_add_app(reg, key, app_id, api_key, name) ==
    IF ~(Truthy(key) /\ Truthy(app_id) /\ Truthy(api_key))
    THEN Outcome(reg.app_configs, reg.current_app_key, "MissingParams")
    ELSE IF HasKey(reg.app_configs, key)
    THEN Outcome(reg.app_configs, reg.current_app_key, "DuplicateKey")
    ELSE LET cfgs == AppManager_add_app(reg.app_configs, key, app_id, api_key, name)
             cur  == IF Len(cfgs) = 1
                     THEN AppManager_set_current_app(Registry(cfgs, reg.current_app_key), key).current_app_key
                     ELSE reg.current_app_key
         IN  Outcome(cfgs, cur, "ok")

\* the assignments made under `if value is not None`
UpdatedConfig_IsNotNone(app, app_id, api_key, name) ==
    [key |-> app.key,
     app_id  |-> IF app_id # None THEN app_id ELSE app.app_id,
     api_key |-> IF api_key # None THEN api_key ELSE app.api_key,
     name    |-> IF name # None THEN name ELSE app.name]

\* the assignments `if value: app.field = value` shared by both update operations
UpdatedConfig(app, app_id, api_key, name) ==
    [key |-> app.key,
     app_id  |-> IF Truthy(app_id) THEN app_id ELSE app.app_id,
     api_key |-> IF Truthy(api_key) THEN api_key ELSE app.api_key,
     name    |-> IF Truthy(name) THEN name ELSE app.name]

\* tool update_local_app_config of the single-file server
update_local_app_config(reg, key, app_id, api_key, name) ==
    IF ~HasKey(reg.app_configs, key)
    THEN Outcome(reg.app_configs, reg.current_app_key, "NotFound")
    ELSE Outcome(DictSet(reg.app_configs, UpdatedConfig(Lookup(reg.app_configs, key), app_id, api_key, name)),
                 reg.current_app_key,
                 IF Truthy(app_id) \/ Truthy(api_key) \/ Truthy(name) THEN "ok" ELSE "NoChanges")

\* AppManager.update_app
AppManager_update_app(reg, key, app_id, api_key, name) ==
    IF ~HasKey(reg.app_configs, key)
    THEN Outcome(reg.app_configs, reg.current_app_key, "False")
    ELSE Outcome(DictSet(reg.app_configs, UpdatedConfig(Lookup(reg.app_configs, key), app_id, api_key, name)),
                 reg.current_app_key, "True")

\* remove_app that leaves current_app_key alone
remove_app_KeepCurrent(reg, key) ==
    IF ~HasKey(reg.app_configs, key)
    THEN Outcome(reg.app_configs, reg.current_app_key, "NotFound")
    ELSE Outcome(DictDel(reg.app_configs, key), reg.current_app_key, "ok")

\* tool remove_app of the single-file server
remove_app(reg, key) ==
    IF ~HasKey(reg.app_configs, key)
    THEN Outcome(reg.app_configs, reg.current_app_key, "NotFound")
    ELSE LET cur == IF reg.current_app_key = key
                    THEN IF Len(reg.app_configs) > 1
                         THEN OtherKeys(reg.app_configs, key)[1]
                         ELSE None
                    ELSE reg.current_app_key
         IN  Outcome(DictDel(reg.app_configs, key), cur, "ok")

\* remove_app that takes the first key of the mapping, the removed one included
AppManager_remove_app_FirstKey(reg, key) ==
    IF ~HasKey(reg.app_configs, key)
    THEN Outcome(reg.app_configs, reg.current_app_key, "False")
    ELSE LET cur == IF reg.current_app_key = key
                    THEN KeysOf(reg.app_configs)[1]
                    ELSE reg.current_app_key
         IN  Outcome(DictDel(reg.app_configs, key), cur, "True")

\* AppManager.remove_app
AppManager_remove_app(reg, key) ==
    IF ~HasKey(reg.app_configs, key)
    THEN Outcome(reg.app_configs, reg.current_app_key, "False")
    ELSE LET other_keys == OtherKeys(reg.app_configs, key)
             cur == IF reg.current_app_key = key
                    THEN IF other_keys # <<>> THEN other_keys[1] ELSE None
                    ELSE reg.current_app_key
         IN  Outcome(DictDel(reg.app_configs, key), cur, "True")

\* set_current_app of the single-file server
set_current_app(reg, app_key) ==
    IF HasKey(reg.app_configs, app_key)
    THEN Outcome(reg.app_configs, app_key, "True")
    ELSE Outcome(reg.app_configs, reg.current_app_key, "False")

\* tool switch_app of the single-file server
switch_app(reg, key) ==
    IF ~HasKey(reg.app_configs, key)
    THEN Outcome(reg.app_configs, reg.current_app_key, "NotFound")
    ELSE Outcome(reg.app_configs, key, "ok")

\* tool switch_app of the modular package
refactored_switch_app(reg, key) ==
    LET r == AppManager_set_current_app(reg, key)
    IN  Outcome(r.app_configs, r.current_app_key, IF r.ret = "True" THEN "ok" ELSE "NotFound")

\* AppManager.get_current_app and get_current_app of the single-file server
get_current_app(reg) ==
    IF Truthy(reg.current_app_key) /\ HasKey(reg.app_configs, reg.current_app_key)
    THEN Lookup(reg.app_configs, reg.current_app_key)
    ELSE NoAppConfig

\* AppManager.get_app: dict.get
AppManager_get_app(reg, key) ==
    IF HasKey(reg.app_configs, key) THEN Lookup(reg.app_configs, key) ELSE NoAppConfig

(* ---------------------------------------------------------------------- *)
(* Registry actions                                                        *)
(* ---------------------------------------------------------------------- *)

Reg == Registry(app_configs, current_app_key)

RegCall(op, key, app_id, api_key, name) ==
    [NoCall EXCEPT !.op = op, !.key = key, !.app_id = app_id, !.api_key = api_key, !.name = name]

\* a call runs to completion (no await inside a registry operation) and its
\* result is handed to the caller
Finish(out, c) ==
    /\ pc = "idle" /\ pc' = "returned"
    /\ app_configs' = out.app_configs
    /\ current_app_key' = out.current_app_key
    /\ ret' = out.ret
    /\ call' = c
    /\ http' = <<>>
    /\ detail' = NoDetail
    /\ UNCHANGED <<impl, started, ONESIGNAL_ORG_API_KEY>>

\* arguments of add: required strings (possibly empty) and an optional name
AddArgs == [key : ToolKeys, app_id : {"", "app-1"}, api_key : {"", "key-1"}, name : {None, "Acme"}]

\* arguments of update: every field is omitted, empty or a value
UpdateArgs == [key : ToolKeys \ {""}, app_id : {None, "", "app-2"}, api_key : {None, "", "os_v2_k2"},
               name : {None, "", "Acme"}]

AddAppMono ==
    /\ started /\ impl = "mono"
    /\ \E a \in AddArgs :
          LET out == add_app(Reg, a.key, a.app_id, a.api_key, a.name)
          IN  /\ Len(out.app_configs) <= MaxApps
              /\ Finish(out, RegCall("add", a.key, a.app_id, a.api_key, a.name))

AddAppMod ==
    /\ started /\ impl = "mod"
    /\ \E a \in AddArgs :
          LET out == refactored_add_app(Reg, a.key, a.app_id, a.api_key, a.name)
          IN  /\ Len(out.app_configs) <= MaxApps
              /\ Finish(out, RegCall("add", a.key, a.app_id, a.api_key, a.name))

UpdateMono ==
    /\ started /\ impl = "mono"
    /\ \E a \in UpdateArgs :
          Finish(update_local_app_config(Reg, a.key, a.app_id, a.api_key, a.name),
                 RegCall("update", a.key, a.app_id, a.api_key, a.name))

UpdateMod ==
    /\ started /\ impl = "mod"
    /\ \E a \in UpdateArgs :
          Finish(AppManager_update_app(Reg, a.key, a.app_id, a.api_key, a.name),
                 RegCall("update", a.key, a.app_id, a.api_key, a.name))

\* keys remove and switch are called with: any key of the registry or of the tools
CallKeys == ToolKeys \cup KeySet(app_configs)

RemoveMono ==
    /\ started /\ impl = "mono"
    /\ \E k \in CallKeys : Finish(remove_app(Reg, k), RegCall("remove", k, None, None, None))

RemoveMod ==
    /\ started /\ impl = "mod"
    /\ \E k \in CallKeys : Finish(AppManager_remove_app(Reg, k), RegCall("remove", k, None, None, None))

SetCurrentMono ==
    /\ started /\ impl = "mono"
    /\ \E k \in CallKeys : Finish(set_current_app(Reg, k), RegCall("set_current", k, None, None, None))

SwitchMono ==
    /\ started /\ impl = "mono"
    /\ \E k \in CallKeys : Finish(switch_app(Reg, k), RegCall("switch", k, None, None, None))

SwitchMod ==
    /\ started /\ impl = "mod"
    /\ \E k \in CallKeys : Finish(refactored_switch_app(Reg, k), RegCall("switch", k, None, None, None))

RegistryNext ==
    \/ AddAppMono \/ AddAppMod
    \/ UpdateMono \/ UpdateMod
    \/ RemoveMono \/ RemoveMod
    \/ SetCurrentMono \/ SwitchMono \/ SwitchMod

(* ---------------------------------------------------------------------- *)
(* Endpoints and the auth-scope classifier                                 *)
(* ---------------------------------------------------------------------- *)

\* An endpoint string is a sequence of tokens; the string is their
\* concatenation.  No token is a prefix of another, so one string has one
\* token sequence and str.startswith is StartsWith on the sequences.
Tokens == {"apps", "/", "players", "notifications", "csv_export", "templates", "x", "123", "abc"}

\* the tokens the classifier is exercised on in every arrangement
CoreTokens == {"apps", "/", "players", "notifications", "csv_export", "templates", "x"}

\* s.startswith(p)
StartsWith(s, p) == Len(s) >= Len(p) /\ SubSeq(s, 1, Len(p)) = p

\* f"{ep}/"
WithSlash(ep) == ep \o <<"/">>

\* the list in requires_org_api_key of the single-file server
org_level_endpoints ==
    << <<"apps">>, <<"notifications", "/", "csv_export">>, <<"players", "/", "csv_export">> >>

\* the classifier with startswith(org_endpoint) in place of startswith(f"{org_endpoint}/")
requires_org_api_key_BarePrefix(endpoint) ==
    \E i \in 1..Len(org_level_endpoints) :
        endpoint = org_level_endpoints[i] \/ StartsWith(endpoint, org_level_endpoints[i])

\* requires_org_api_key of the single-file server: the loop over the list
requires_org_api_key(endpoint) ==
    \E i \in 1..Len(org_level_endpoints) :
        endpoint = org_level_endpoints[i] \/ StartsWith(endpoint, WithSlash(org_level_endpoints[i]))

\* the list in requires_org_api_key of the modular package
config_org_level_endpoints ==
    << <<"apps">>, <<"players", "/", "csv_export">>, <<"notifications", "/", "csv_export">> >>

\* requires_org_api_key of the modular package: any(...) over the list
config_requires_org_api_key(endpoint) ==
    \E i \in 1..Len(config_org_level_endpoints) :
        endpoint = config_org_level_endpoints[i]
            \/ StartsWith(endpoint, WithSlash(config_org_level_endpoints[i]))

(* ---------------------------------------------------------------------- *)
(* Dispatch                                                                *)
(* ---------------------------------------------------------------------- *)

\* credentials of the model that begin with "os_v2_"
StartsWithOsV2(key) == key \in {"os_v2_k2", "os_v2_org"}

\* the Authorization header: scheme, credential, and whether the credential
\* is sent as base64(credential + ":") or as it is
AuthHeader(scheme, credential, b64) == [scheme |-> scheme, credential |-> credential, b64 |-> b64]

\* header selection of the single-file server
KeyStyleHeader(key) ==
    IF StartsWithOsV2(key) THEN AuthHeader("Key", key, FALSE) ELSE AuthHeader("Basic", key, TRUE)

\* str.upper on the method names of the model
Upper(m) ==
    CASE m = "get" -> "GET"
      [] OTHER -> m

\* the methods the docstring of make_onesignal_request lists: no PATCH branch
SupportedMethods_NoPatch == {"GET", "POST", "PUT", "DELETE"}

\* a transport without the PUT branch
SupportedMethods_NoPut == {"GET", "POST", "DELETE", "PATCH"}

\* the methods the transport branch knows
SupportedMethods == {"GET", "POST", "PUT", "DELETE", "PATCH"}

\* the test `org_key is None`, which an unset variable (read as "") passes
OrgKeyMissing_IsNone(org_key) == org_key = None

\* `if not ONESIGNAL_ORG_API_KEY`
OrgKeyMissing(org_key) == ~Truthy(org_key)

\* a JSON value of a response body: its type, the items of a list, and its
\* text as an f-string prints it
JAbsent == [type |-> "absent", items |-> <<>>, repr |-> ""]

JList(items) == [type |-> "list", items |-> items, repr |-> "[..]"]

JStr(s) == [type |-> "str", items |-> <<>>, repr |-> s]

JObject(repr) == [type |-> "object", items |-> <<>>, repr |-> repr]

\* Python truthiness of a JSON value
PyTruthy(v) ==
    CASE v.type = "list" -> v.items # <<>>
      [] v.type = "str" -> v.repr # ""
      [] v.type = "object" -> v.repr # "{}"
      [] OTHER -> FALSE

\* a response body: what response.json() gives ("invalid" when it raises) and,
\* of a JSON object, the three fields the error handlers look at
Body(json, errors, error, message) ==
    [json |-> json, errors |-> errors, error |-> error, message |-> message]

\* a body that is no JSON at all
NoBody == Body("invalid", JAbsent, None, None)

\* a JSON object without any of the error fields
PlainBody == Body("dict", JAbsent, None, None)

\* what the transport gives back: no response at all (timeout, connection
\* error: status 0) or a response with a status and a body
NoResponse == [fail |-> TRUE, status |-> 0, body |-> NoBody]

Response(status, body) == [fail |-> FALSE, status |-> status, body |-> body]

\* response.reason
Reason(status) ==
    CASE status = 400 -> "Bad Request"
      [] status = 401 -> "Unauthorized"
      [] status = 403 -> "Forbidden"
      [] status = 404 -> "Not Found"
      [] status = 500 -> "Internal Server Error"
      [] OTHER -> "OK"

\* f"Error: {str(e)}" of the HTTPError raise_for_status builds
StrError(resp) ==
    <<"Error: ", ToString(resp.status), " Error: ", Reason(resp.status), " for url">>

\* error_message of the HTTPError handler of the single-file server
error_message(resp) ==
    LET error_data == resp.body
        errors == IF error_data.errors.type = "absent" THEN JList(<<>>) ELSE error_data.errors
    IN  IF error_data.json # "dict" THEN StrError(resp)
        ELSE IF PyTruthy(errors)
        THEN IF errors.type = "list"
             THEN <<"Error: ", errors.items[1]>>
             ELSE <<"Error: ", errors.repr>>
        ELSE IF error_data.error # None THEN <<"Error: ", error_data.error>>
        ELSE IF error_data.message # None THEN <<"Error: ", error_data.message>>
        ELSE <<"Error: ", Reason(resp.status)>>

\* OneSignalAPIClient._extract_error_message of the modular package
OneSignalAPIClient_extract_error_message(resp) ==
    LET error_data == resp.body
        errors == error_data.errors
        reason == <<"Error: ", Reason(resp.status), " (Status: ", ToString(resp.status), ")">>
    IN  IF error_data.json = "invalid" THEN StrError(resp)
        ELSE IF error_data.json # "dict" THEN reason
        ELSE IF errors.type # "absent"
        THEN IF errors.type = "list" /\ errors.items # <<>>
             THEN <<"Error: ", errors.items[1]>>
             ELSE IF errors.type = "str"
             THEN <<"Error: ", errors.repr>>
             ELSE reason
        ELSE IF error_data.error # None THEN <<"Error: ", error_data.error>>
        ELSE IF error_data.message # None THEN <<"Error: ", error_data.message>>
        ELSE reason

\* endpoint.startswith("apps/")
AppsPrefixed(endpoint) == StartsWith(endpoint, <<"apps", "/">>)

\* enrichment that writes the profile's id over the one the caller gave
add_app_id_Overwrite(payload, app_id, endpoint) ==
    IF ~AppsPrefixed(endpoint) THEN WithAppId(app_id) ELSE payload

\* `if "app_id" not in d and not endpoint.startswith("apps/"): d["app_id"] = ...`
add_app_id(payload, app_id, endpoint) ==
    IF ~payload.has /\ ~AppsPrefixed(endpoint) THEN WithAppId(app_id) ELSE payload

\* the methods whose body the single-file server enriches
EnrichedMethodsMono == {"POST", "PUT"}

\* the methods whose body the modular package enriches
EnrichedMethodsMod == {"POST", "PUT", "PATCH"}

\* the methods whose branch of the transport passes json=data
BodyMethods == {"POST", "PUT", "PATCH"}

\* one HTTP exchange: the call of requests.get/post/put/delete/patch with the
\* arguments that branch passes, and the response it got
Request(method, endpoint, use_org, auth, params, data, resp) ==
    [method |-> method, endpoint |-> endpoint, use_org |-> use_org, authorization |-> auth,
     params |-> IF method = "GET" THEN params ELSE NoPayload,
     json |-> IF method \in BodyMethods THEN data ELSE NoPayload,
     response |-> resp]

\* a dispatcher that sends the request again when it failed
Exchanges_RetryOnFailure(req) ==
    IF req.response.fail \/ req.response.status >= 400 THEN <<req, req>> ELSE <<req>>

\* the exchanges of a dispatch that reached the transport: one call, no loop
Exchanges(req) == <<req>>

\* what the returned value (or the raised error) carries besides its kind,
\* and the caller's dictionaries as the dispatch left them
Detail(status_code, auth_type, message, params, data) ==
    [status_code |-> status_code, auth_type |-> auth_type, message |-> message,
     params |-> params, data |-> data]

Result(r, reqs, det) == [ret |-> r, http |-> reqs, detail |-> det]

\* the segments of the model that have "templates" as a substring
TemplatesInSegment(segment) == segment \in {"templates", "my_templates_id"}

\* `endpoint.endswith("/templates") or "templates" in endpoint`: a substring
\* test on the whole endpoint
ContainsTemplates(endpoint) == \E i \in 1..Len(endpoint) : TemplatesInSegment(endpoint[i])

\* the first profile of the registry, whatever the current key is
resolve_app_config_FirstProfile(reg, app_key) ==
    IF Truthy(app_key) /\ HasKey(reg.app_configs, app_key)
    THEN Lookup(reg.app_configs, app_key)
    ELSE IF reg.app_configs # <<>> THEN reg.app_configs[1]
    ELSE NoAppConfig

\* the profile a per-app dispatch of the single-file server uses
resolve_app_config(reg, app_key) ==
    IF Truthy(app_key) /\ HasKey(reg.app_configs, app_key)
    THEN Lookup(reg.app_configs, app_key)
    ELSE IF Truthy(reg.current_app_key) /\ HasKey(reg.app_configs, reg.current_app_key)
    THEN Lookup(reg.app_configs, reg.current_app_key)
    ELSE NoAppConfig

\* the credential scope a 401/403 of the single-file server names
AuthType(use_org) == IF use_org THEN "Organization API Key" ELSE "App REST API Key"

\* make_onesignal_request of the single-file server
make_onesignal_request(reg, org_key, endpoint, method, data, params, use_org_key, app_key, resp) ==
    LET use_org == IF use_org_key = None THEN requires_org_api_key(endpoint) ELSE use_org_key = "True"
        app_config == IF use_org THEN NoAppConfig ELSE resolve_app_config(reg, app_key)
        auth == IF use_org THEN KeyStyleHeader(org_key) ELSE KeyStyleHeader(app_config.api_key)
        params1 == IF use_org THEN params
                   ELSE add_app_id(IF params.dict THEN params ELSE EmptyDict, app_config.app_id, endpoint)
        data1 == IF ~use_org /\ data.dict /\ method \in EnrichedMethodsMono
                 THEN add_app_id(data, app_config.app_id, endpoint)
                 ELSE data
        req == Request(method, endpoint, use_org, auth, params1, data1, resp)
        Out(r, reqs, status, tag, msg) == Result(r, reqs, Detail(status, tag, msg, params1, data1))
    IN  IF ~use_org /\ app_config = NoAppConfig
        THEN Result("NoCurrentApp", <<>>, Detail(0, None, <<>>, params, data))
        ELSE IF use_org /\ OrgKeyMissing(org_key)
        THEN Result("MissingOrgCredential", <<>>, Detail(0, None, <<>>, params, data))
        ELSE IF method \notin SupportedMethods
        THEN Out("UnsupportedMethod", <<>>, 0, None, <<>>)
        ELSE IF resp.fail
        THEN Out("TransportError", Exchanges(req), 0, None, <<>>)
        ELSE IF resp.status = 404
        THEN IF ContainsTemplates(endpoint)
             THEN Out("EmptyTemplates", Exchanges(req), 0, None, <<"No templates found">>)
             ELSE Out("ApiError", Exchanges(req), 404, None, <<"Resource not found">>)
        ELSE IF resp.status >= 400 /\ resp.status < 600
        THEN Out("ApiError", Exchanges(req), resp.status,
                 IF resp.status \in {401, 403} THEN AuthType(use_org) ELSE None,
                 error_message(resp))
        ELSE Out("ok", Exchanges(req), 0, None, <<>>)

\* OneSignalAPIClient.request and _make_request of the modular package;
\* every failure is raised as OneSignalAPIError, which carries a message only
OneSignalAPIClient_request(reg, org_key, endpoint, method, data, params, use_org_key, app_key, resp) ==
    LET use_org == IF use_org_key = None THEN config_requires_org_api_key(endpoint) ELSE use_org_key = "True"
        app_config ==
            IF use_org THEN NoAppConfig
            ELSE IF Truthy(app_key) THEN AppManager_get_app(reg, app_key) ELSE get_current_app(reg)
        auth == IF use_org
                THEN AuthHeader("Basic", org_key, FALSE)
                ELSE AuthHeader("Basic", app_config.api_key, FALSE)
        params1 == IF use_org THEN params
                   ELSE add_app_id(IF params.dict THEN params ELSE EmptyDict, app_config.app_id, endpoint)
        data1 == IF ~use_org /\ data.dict /\ method \in EnrichedMethodsMod
                 THEN add_app_id(data, app_config.app_id, endpoint)
                 ELSE data
        req == Request(Upper(method), endpoint, use_org, auth, params1, data1, resp)
        Out(r, reqs, msg) == Result(r, reqs, Detail(0, None, msg, params1, data1))
    IN  IF use_org /\ ~Truthy(org_key)
        THEN Result("MissingOrgCredential", <<>>, Detail(0, None, <<>>, params, data))
        ELSE IF ~use_org /\ app_config = NoAppConfig
        THEN Result("NoCurrentApp", <<>>, Detail(0, None, <<>>, params, data))
        ELSE IF Upper(method) \notin SupportedMethods
        THEN Out("UnsupportedMethod", <<>>, <<>>)
        ELSE IF resp.fail
        THEN Out("TransportError", Exchanges(req), <<>>)
        ELSE IF resp.status >= 400 /\ resp.status < 600
        THEN Out("ApiError", Exchanges(req), OneSignalAPIClient_extract_error_message(resp))
        ELSE Out("ok", Exchanges(req), <<>>)

\* methods a dispatch is called with: the documented ones, one that is not,
\* and a documented one in lower case
Methods == {"GET", "POST", "PUT", "PATCH", "DELETE", "HEAD", "get"}

Endpoints ==
    { <<"apps">>, <<"apps", "/", "123">>, <<"apps", "/", "123", "/", "templates">>,
      <<"notifications">>, <<"templates">>, <<"templates", "/", "abc">>,
      <<"players", "/", "my_templates_id">> }

Responses ==
    {NoResponse, Response(200, PlainBody), Response(401, PlainBody), Response(403, NoBody),
     Response(404, PlainBody)}

\* arguments of a dispatch, with the answer the transport will give
DispatchArgs ==
    [endpoint : Endpoints, method : Methods, data : {EmptyDict}, params : {NoPayload},
     use_org_key : {None, "True", "False"}, app_key : {None, "acme", "weirdbrains"}, resp : Responses]

\* dispatches of per-app scope, as the messaging tools make them
PerAppArgs ==
    [endpoint : {<<"notifications">>}, method : {"POST", "GET"}, data : {EmptyDict}, params : {NoPayload},
     use_org_key : {None, "False"}, app_key : {None, "acme"}, resp : {NoResponse, Response(200, PlainBody)}]

\* the dictionaries a caller passes as params or data
Payloads == {NoPayload, EmptyDict, WithAppId("app-9")}

\* dispatches that differ in what the caller put into params and data
PayloadArgs ==
    [endpoint : { <<"notifications">>, <<"apps", "/", "123">>, <<"templates", "/", "abc">> },
     method : {"GET", "POST", "PUT", "PATCH", "DELETE"}, data : Payloads, params : Payloads,
     use_org_key : {None, "True", "False"}, app_key : {None, "weirdbrains"},
     resp : {Response(200, PlainBody)}]

\* values of the `errors` field of an error body
ErrorsValues ==
    {JAbsent, JList(<<>>), JList(<<"e1", "e2">>), JStr("boom"), JStr(""),
     JObject("{}"), JObject("{'invalid_ids': ['x']}")}

\* bodies of a non-2xx response
ErrorBodies ==
    {NoBody, Body("list", JAbsent, None, None)}
        \cup {Body("dict", e, er, m) : e \in ErrorsValues, er \in {None, "invalid app"},
                                        m \in {None, "bad request"}}

\* dispatches answered with an error status
ErrorArgs ==
    [endpoint : {<<"notifications">>}, method : {"GET"}, data : {NoPayload}, params : {NoPayload},
     use_org_key : {None, "True"}, app_key : {None},
     resp : {Response(s, b) : s \in {400, 401}, b \in ErrorBodies}]

DispatchCall(d) ==
    [NoCall EXCEPT !.op = "dispatch", !.key = d.app_key, !.endpoint = d.endpoint,
                   !.method = d.method, !.use_org_key = d.use_org_key,
                   !.data = d.data, !.params = d.params]

\* a dispatch that also makes the profile it was given the current one
FinishDispatch_SwitchesProfile(res, c) ==
    /\ pc = "idle" /\ pc' = "returned"
    /\ ret' = res.ret
    /\ http' = res.http
    /\ detail' = res.detail
    /\ call' = c
    /\ current_app_key' = IF HasKey(app_configs, c.key) THEN c.key ELSE current_app_key
    /\ UNCHANGED <<impl, started, ONESIGNAL_ORG_API_KEY, app_configs>>

\* dispatch reads the registry and leaves it as it is
FinishDispatch(res, c) ==
    /\ pc = "idle" /\ pc' = "returned"
    /\ ret' = res.ret
    /\ http' = res.http
    /\ detail' = res.detail
    /\ call' = c
    /\ UNCHANGED <<impl, started, ONESIGNAL_ORG_API_KEY, app_configs, current_app_key>>

DispatchWith(d) ==
    IF impl = "mono"
    THEN FinishDispatch(make_onesignal_request(Reg, ONESIGNAL_ORG_API_KEY, d.endpoint, d.method, d.data,
                                               d.params, d.use_org_key, d.app_key, d.resp),
                        DispatchCall(d))
    ELSE FinishDispatch(OneSignalAPIClient_request(Reg, ONESIGNAL_ORG_API_KEY, d.endpoint, d.method, d.data,
                                                   d.params, d.use_org_key, d.app_key, d.resp),
                        DispatchCall(d))

Dispatch == started /\ \E d \in DispatchArgs : DispatchWith(d)

PerAppDispatch == started /\ \E d \in PerAppArgs : DispatchWith(d)

DispatchPayload == started /\ \E d \in PayloadArgs : DispatchWith(d)

DispatchError == started /\ \E d \in ErrorArgs : DispatchWith(d)

\* the caller has taken the result; the server waits for the next call
Return ==
    /\ pc = "returned" /\ pc' = "idle"
    /\ call' = NoCall /\ ret' = None /\ http' = <<>> /\ detail' = NoDetail
    /\ UNCHANGED <<impl, started, ONESIGNAL_ORG_API_KEY, app_configs, current_app_key>>

\* registry operations interleaved with per-app dispatches
Next == RegistryNext \/ PerAppDispatch \/ Return

Spec == Init /\ [][Next]_vars

\* dispatches of every shape, on the registries start-up and remove produce
NextDispatch == Dispatch \/ RemoveMono \/ RemoveMod \/ Return

SpecDispatch == Init /\ [][NextDispatch]_vars

\* dispatches that differ in the caller's params and data, on the registries
\* start-up produces
NextPayload == DispatchPayload \/ Return

SpecPayload == Init /\ [][NextPayload]_vars

\* dispatches the service answers with an error status and an error body
NextError == DispatchError \/ Return

SpecError == Init /\ [][NextError]_vars

\* start-up under every environment, the environment kept as the record of
\* the call, followed by per-app dispatches
InitEnv == \E i \in Impls, env \in Envs : Loaded(i, env) /\ call = [op |-> "init", env |-> env]

NextInit == PerAppDispatch \/ Return

SpecInit == InitEnv /\ [][NextInit]_vars

\* ---------------------------------------------------------------------------
\* The tools: the functions registered with @mcp.tool(), which build the
\* arguments of one dispatch (two for the single-file delete_template) and
\* turn its result into the value the caller receives
\* ---------------------------------------------------------------------------

FailureKinds ==
    {"NoCurrentApp", "MissingOrgCredential", "UnsupportedMethod", "ApiError", "TransportError"}

\* a tool: whether it reads the current profile before the dispatch and what
\* it does when there is none (no_app), the endpoint it formats, the method,
\* what it puts in data and params, the use_org_key it passes, the exception
\* class its wrapper catches, and whether it dispatches a second time when
\* the first result has an "error" key
Tool(name, reads_current, no_app, path, method, data, params, use_org_key, catch, fallback) ==
    [name |-> name, reads_current |-> reads_current, no_app |-> no_app, path |-> path,
     method |-> method, data |-> data, params |-> params, use_org_key |-> use_org_key,
     catch |-> catch, fallback |-> fallback]

MonoTools ==
    { Tool("send_push_notification", TRUE, "error", "notifications", "POST",
           "app_id", "none", "False", "none", FALSE),
      Tool("view_segments", TRUE, "error", "apps/{app_id}/segments", "GET",
           "none", "none", "False", "none", FALSE),
      Tool("view_apps", FALSE, "error", "apps", "GET",
           "none", "none", "True", "none", FALSE),
      Tool("delete_template", TRUE, "error", "apps/{app_id}/templates/{template_id}", "DELETE",
           "none", "none", "False", "none", TRUE),
      Tool("view_outcomes", TRUE, "error", "apps/{app_id}/outcomes", "GET",
           "none", "plain", "False", "none", FALSE),
      Tool("export_messages_csv", FALSE, "error", "notifications/csv_export", "POST",
           "plain", "none", "True", "none", FALSE),
      Tool("delete_player", TRUE, "error", "players/{player_id}", "DELETE",
           "none", "app_id", "False", "none", FALSE) }

ModTools ==
    { Tool("send_push_notification", FALSE, "error", "notifications", "POST",
           "plain", "none", None, "OneSignalAPIError", FALSE),
      Tool("create_template", TRUE, "ValueError", "templates", "POST",
           "app_id", "none", None, "Exception", FALSE),
      Tool("view_templates", FALSE, "error", "templates", "GET",
           "none", "none", None, "Exception", FALSE),
      Tool("delete_template", FALSE, "error", "templates/{template_id}", "DELETE",
           "none", "none", None, "Exception", FALSE),
      Tool("view_outcomes", TRUE, "ValueError", "apps/{app_id}/outcomes", "GET",
           "none", "plain", None, "Exception", FALSE),
      Tool("export_players_csv", FALSE, "error", "players/csv_export", "POST",
           "plain", "none", "True", "OneSignalAPIError", FALSE) }

ToolsOf(i) == IF i = "mono" THEN MonoTools ELSE ModTools

\* the f-string of the tool's endpoint, with the app_id of the profile it read
ToolEndpoint(path, app_id) ==
    CASE path = "notifications" -> <<"notifications">>
      [] path = "apps" -> <<"apps">>
      [] path = "templates" -> <<"templates">>
      [] path = "templates/{template_id}" -> <<"templates", "/", "abc">>
      [] path = "players/{player_id}" -> <<"players", "/", "p1">>
      [] path = "players/csv_export" -> <<"players", "/", "csv_export">>
      [] path = "notifications/csv_export" -> <<"notifications", "/", "csv_export">>
      [] path = "apps/{app_id}/segments" -> <<"apps", "/", app_id, "/", "segments">>
      [] path = "apps/{app_id}/outcomes" -> <<"apps", "/", app_id, "/", "outcomes">>
      [] path = "apps/{app_id}/templates/{template_id}" ->
             <<"apps", "/", app_id, "/", "templates", "/", "abc">>

\* the dictionary a tool builds for data or for params
ToolPayload(kind, app_id) ==
    CASE kind = "app_id" -> WithAppId(app_id)
      [] kind = "plain" -> EmptyDict
      [] OTHER -> NoPayload

\* a wrapper whose except clause matches the named class only
Catches_ExactClassOnly(catch, exc) == catch = exc

\* does `except <catch>` stop an exception of class exc: OneSignalAPIError
\* and ValueError are both subclasses of Exception
Catches(catch, exc) == catch = "Exception" \/ catch = exc

\* the class of the exception a dispatch result stands for: the modular
\* client raises OneSignalAPIError for every failure, the single-file
\* dispatcher returns a dictionary
ExceptionOf(i, r) == IF i = "mod" /\ r \in FailureKinds THEN "OneSignalAPIError" ELSE None

\* what the caller of a tool gets: value is "ok", "error" (a returned error
\* value) or "raised"; failure is the dispatch failure behind it, exception
\* the class that was raised on the way
ToolReturn(value, failure, exception, seen) ==
    [value |-> value, failure |-> failure, exception |-> exception, seen |-> seen]

\* the tool's handling of an exception of class exc raised under its wrapper
Raised(tool, failure, exc, seen) ==
    IF Catches(tool.catch, exc)
    THEN ToolReturn("error", failure, exc, seen)
    ELSE ToolReturn("raised", failure, exc, seen)

\* an awaited dispatch that hands control to the event loop before it
\* reads the registry
AwaitYields_BeforeResolving == TRUE

\* does `await make_onesignal_request(...)` / `await api_client.request(...)`
\* let another task run between the tool's read of the current profile and
\* the dispatcher's: the coroutine has no await inside (requests is a
\* blocking call), so it runs to completion without suspending
AwaitYields == FALSE

\* the registries the dispatcher can find after the tool read reg
Interleavings(i, reg) ==
    IF AwaitYields
    THEN {reg} \cup
         { Registry(o.app_configs, o.current_app_key) :
             o \in { IF i = "mono" THEN switch_app(reg, k) ELSE AppManager_set_current_app(reg, k) :
                       k \in KeySet(reg.app_configs) }
                   \cup
                   { IF i = "mono" THEN remove_app(reg, k) ELSE AppManager_remove_app(reg, k) :
                       k \in KeySet(reg.app_configs) } }
    ELSE {reg}

Dispatcher(i, reg, org_key, endpoint, method, data, params, use_org_key, resp) ==
    IF i = "mono"
    THEN make_onesignal_request(reg, org_key, endpoint, method, data, params, use_org_key, None, resp)
    ELSE OneSignalAPIClient_request(reg, org_key, endpoint, method, data, params, use_org_key, None, resp)

\* one call of a tool: reg is the registry when the tool starts, reg2 the one
\* the dispatcher finds, r1 and r2 the upstream's answers
RunTool(i, tool, reg, reg2, org_key, r1, r2) ==
    LET app_config == get_current_app(reg)
        seen == IF tool.reads_current THEN app_config.app_id ELSE None
        first == Dispatcher(i, reg2, org_key, ToolEndpoint(tool.path, app_config.app_id),
                            tool.method, ToolPayload(tool.data, app_config.app_id),
                            ToolPayload(tool.params, app_config.app_id), tool.use_org_key, r1)
        second == Dispatcher(i, reg2, org_key, <<"templates", "/", "abc">>, "DELETE",
                             NoPayload, WithAppId(app_config.app_id), "False", r2)
        last == IF tool.fallback /\ first.ret \in FailureKinds
                THEN [second EXCEPT !.http = first.http \o second.http]
                ELSE first
        exc == ExceptionOf(i, last.ret)
    IN  IF tool.reads_current /\ app_config = NoAppConfig
        THEN Result(IF tool.no_app = "error"
                    THEN ToolReturn("error", "NoCurrentApp", None, seen)
                    ELSE Raised(tool, "NoCurrentApp", tool.no_app, seen),
                    <<>>, NoDetail)
        ELSE Result(IF exc # None THEN Raised(tool, last.ret, exc, seen)
                    ELSE IF last.ret \in FailureKinds
                         THEN ToolReturn("error", last.ret, None, seen)
                         ELSE ToolReturn("ok", None, None, seen),
                    last.http, last.detail)

ToolResponses ==
    {NoResponse, Response(200, PlainBody), Response(401, PlainBody), Response(404, PlainBody)}

ToolCall ==
    /\ started /\ pc = "idle"
    /\ \E tool \in ToolsOf(impl), r1 \in ToolResponses, reg2 \in Interleavings(impl, Reg) :
         \E r2 \in IF tool.fallback THEN ToolResponses ELSE {r1} :
           LET out == RunTool(impl, tool, Reg, reg2, ONESIGNAL_ORG_API_KEY, r1, r2)
           IN  /\ pc' = "returned"
               /\ call' = [op |-> "tool", tool |-> tool]
               /\ ret' = out.ret /\ http' = out.http /\ detail' = out.detail
               /\ app_configs' = reg2.app_configs
               /\ current_app_key' = reg2.current_app_key
               /\ UNCHANGED <<impl, started, ONESIGNAL_ORG_API_KEY>>

\* the tools of the registry that other calls make between two tool calls
NextTools ==
    ToolCall \/ SwitchMono \/ SwitchMod \/ RemoveMono \/ RemoveMod \/ Return

SpecTools == Init /\ [][NextTools]_vars

\* ---------------------------------------------------------------------------
\* Reads beside mutations: the statements of a mutation one by one, and what
\* a read that is called while the mutation is in flight can see
\* ---------------------------------------------------------------------------

AsRegistry(o) == Registry(o.app_configs, o.current_app_key)

UpdateOf(i, reg, key, app_id, api_key) ==
    AsRegistry(IF i = "mono"
               THEN update_local_app_config(reg, key, app_id, api_key, None)
               ELSE AppManager_update_app(reg, key, app_id, api_key, None))

RemoveOf(i, reg, key) ==
    AsRegistry(IF i = "mono" THEN remove_app(reg, key) ELSE AppManager_remove_app(reg, key))

SwitchOf(i, reg, key) ==
    AsRegistry(IF i = "mono" THEN switch_app(reg, key) ELSE AppManager_set_current_app(reg, key))

Mutation(op, key, app_id, api_key) ==
    [op |-> op, key |-> key, app_id |-> app_id, api_key |-> api_key]

Mutations ==
    { Mutation("switch", k, None, None) : k \in KeySet(app_configs) }
    \cup { Mutation("remove", k, None, None) : k \in KeySet(app_configs) }
    \cup { Mutation("update", k, a, s) :
             k \in KeySet(app_configs), a \in {None, "app-9"}, s \in {None, "key-9"} }

\* the registry after each statement of the mutation, from the one it starts
\* on to the one it leaves: remove re-points current_app_key and then deletes
\* the entry, update assigns app_id and then api_key, switch is one assignment
MutationSteps(i, reg, m) ==
    CASE m.op = "remove" ->
           LET post == RemoveOf(i, reg, m.key)
           IN  IF reg.current_app_key = m.key
               THEN <<reg, Registry(reg.app_configs, post.current_app_key), post>>
               ELSE <<reg, post>>
      [] m.op = "update" ->
           LET first == UpdateOf(i, reg, m.key, m.app_id, None)
           IN  <<reg, first, UpdateOf(i, first, m.key, None, m.api_key)>>
      [] OTHER -> <<reg, SwitchOf(i, reg, m.key)>>

\* a mutation that hands control to the event loop after each statement
MutationYields_BetweenStatements == TRUE

\* can another coroutine run between two statements of a mutation: the bodies
\* of add_app, update_local_app_config, remove_app and switch_app (and the
\* AppManager methods the modular tools call) contain no await
MutationYields == FALSE

\* the registries a read can find while the mutation is in flight
Observable(steps) ==
    IF MutationYields
    THEN {steps[n] : n \in 1..Len(steps)}
    ELSE {steps[1], steps[Len(steps)]}

\* a mutation and a read (get_current_app, list_apps) called concurrently:
\* the read sees one of the observable registries, the mutation completes
ReadBesideMutation ==
    /\ started /\ pc = "idle"
    /\ \E m \in Mutations :
         LET steps == MutationSteps(impl, Reg, m)
         IN  \E seen \in Observable(steps) :
               /\ pc' = "returned"
               /\ call' = [op |-> "read", mutation |-> m]
               /\ ret' = [observed |-> seen, current |-> get_current_app(seen)]
               /\ app_configs' = steps[Len(steps)].app_configs
               /\ current_app_key' = steps[Len(steps)].current_app_key
               /\ http' = <<>> /\ detail' = NoDetail
               /\ UNCHANGED <<impl, started, ONESIGNAL_ORG_API_KEY>>

NextAtomic == ReadBesideMutation \/ Return

SpecAtomic == Init /\ [][NextAtomic]_vars

(* ---------------------------------------------------------------------- *)
(* The classifiers as pure functions of the endpoint                       *)
(* ---------------------------------------------------------------------- *)

\* every endpoint of at most MaxEpLen core tokens, and the endpoints the
\* documentation names
EndpointInputs ==
    UNION {[1..n -> CoreTokens] : n \in 0..MaxEpLen}
        \cup { <<"apps", "/", "123">>, <<"templates", "/", "abc">> }

\* no profile and no organization key configured
EmptyEnv ==
    [PRIMARY_APP_ID |-> "", PRIMARY_API_KEY |-> "", WEIRDBRAINS_APP_ID |-> "", WEIRDBRAINS_API_KEY |-> "",
     APP_ID |-> "", API_KEY |-> "", ORG_API_KEY |-> ""]

InitClassify ==
    \E ep \in EndpointInputs :
        /\ Loaded("mono", EmptyEnv)
        /\ call = [NoCall EXCEPT !.op = "classify", !.endpoint = ep]

\* both classifiers applied to the endpoint
Classify ==
    /\ pc = "idle" /\ call.op = "classify"
    /\ pc' = "returned"
    /\ ret' = [mono |-> requires_org_api_key(call.endpoint),
               mod  |-> config_requires_org_api_key(call.endpoint)]
    /\ UNCHANGED <<impl, started, ONESIGNAL_ORG_API_KEY, app_configs, current_app_key, call, http, detail>>

SpecClassify == InitClassify /\ [][Classify]_vars

(* ---------------------------------------------------------------------- *)
(* Properties of the registry                                              *)
(* ---------------------------------------------------------------------- *)

\* the step is a call of one of the operations `ops`
Calls(ops) == pc = "idle" /\ pc' = "returned" /\ call'.op \in ops

ProfilesUnchanged == app_configs' = app_configs

RegistryUnchanged == app_configs' = app_configs /\ current_app_key' = current_app_key

\* C1: in every state of a started server, after any sequence of add, update,
\* remove and switch calls, current_app_key is unset or a key of app_configs.
C1_CurrentKeyIsUnsetOrPresent ==
    started => (current_app_key = None \/ HasKey(app_configs, current_app_key))

\* a remove has just taken the current profile away and another one is current
C1_Witness ==
    /\ pc = "returned" /\ call.op = "remove" /\ ret \in {"ok", "True"}
    /\ app_configs # <<>> /\ HasKey(app_configs, current_app_key)

\* C2 as stated: every add with a key that is present fails with DuplicateKey
\* and leaves the registry as it was.
C2_Original ==
    [][(Calls({"add"}) /\ HasKey(app_configs, call'.key))
          => (ret' = "DuplicateKey" /\ RegistryUnchanged)]_vars

\* C2 as amended: an add with a key that is present fails and leaves the key
\* set, every profile's fields and current_app_key as they were; the failure is
\* DuplicateKey when app_id and api_key are both non-empty, and the
\* missing-parameter error when one of them is empty.
C2_DuplicateAddFailsAndChangesNothing ==
    [][(Calls({"add"}) /\ HasKey(app_configs, call'.key))
          => /\ ret' = (IF Truthy(call'.app_id) /\ Truthy(call'.api_key)
                        THEN "DuplicateKey" ELSE "MissingParams")
             /\ RegistryUnchanged]_vars

\* an add has just been refused as a duplicate
C2_Witness ==
    pc = "returned" /\ call.op = "add" /\ ret = "DuplicateKey" /\ HasKey(app_configs, call.key)

\* C3: a successful add into an empty registry (the first profile) makes the
\* added key current; a successful add into a registry that holds a profile
\* leaves current_app_key as it was.
C3_FirstAddBecomesCurrent ==
    [][(Calls({"add"}) /\ ret' = "ok")
          => /\ HasKey(app_configs', call'.key)
             /\ IF app_configs = <<>>
                THEN current_app_key' = call'.key
                ELSE current_app_key' = current_app_key]_vars

\* a second profile has just been added and the first one is still current
C3_Witness ==
    /\ pc = "returned" /\ call.op = "add" /\ ret = "ok"
    /\ Len(app_configs) = 2 /\ current_app_key = app_configs[1].key
    /\ call.key = app_configs[2].key

\* C4: removing the current profile leaves, when another profile exists, one
\* of the remaining keys current, and clears current_app_key when it was the
\* only profile; the removed key is gone from app_configs.
C4_RemoveCurrentReassignsOrClears ==
    [][(Calls({"remove"}) /\ HasKey(app_configs, call'.key) /\ current_app_key = call'.key)
          => /\ ~HasKey(app_configs', call'.key)
             /\ IF Len(app_configs) >= 2
                THEN current_app_key' # call'.key /\ HasKey(app_configs', current_app_key')
                ELSE current_app_key' = None]_vars

\* the only profile, which was current, has just been removed
C4_Witness ==
    /\ pc = "returned" /\ call.op = "remove" /\ ret \in {"ok", "True"}
    /\ app_configs = <<>> /\ current_app_key = None

\* C5: setCurrent with an absent key returns false and leaves current_app_key
\* and app_configs alone; with a present key it returns true and makes that
\* key current, app_configs unchanged.
C5_SetCurrentOnlyToPresentKey ==
    [][Calls({"switch", "set_current"})
          => /\ ProfilesUnchanged
             /\ IF HasKey(app_configs, call'.key)
                THEN ret' \in {"True", "ok"} /\ current_app_key' = call'.key
                ELSE ret' \in {"False", "NotFound"} /\ current_app_key' = current_app_key]_vars

\* a switch to an absent key has just been refused while a profile is current
C5_Witness ==
    /\ pc = "returned" /\ call.op \in {"switch", "set_current"} /\ ret \in {"False", "NotFound"}
    /\ ~HasKey(app_configs, call.key) /\ HasKey(app_configs, current_app_key)

\* the profile `app` with the fields for which Given holds set to the arguments
FieldsSet(app, c, Given(_)) ==
    [key |-> app.key,
     app_id  |-> IF Given(c.app_id) THEN c.app_id ELSE app.app_id,
     api_key |-> IF Given(c.api_key) THEN c.api_key ELSE app.api_key,
     name    |-> IF Given(c.name) THEN c.name ELSE app.name]

Supplied(v) == v # None

\* what an update call must do when the fields for which Given holds count as supplied
UpdateContract(Given(_)) ==
    Calls({"update"})
       => IF ~HasKey(app_configs, call'.key)
          THEN ret' \in {"False", "NotFound"} /\ RegistryUnchanged
          ELSE /\ ret' \notin {"False", "NotFound"}
               /\ current_app_key' = current_app_key
               /\ Len(app_configs') = Len(app_configs)
               /\ \A i \in 1..Len(app_configs) :
                     app_configs'[i] = IF app_configs[i].key = call'.key
                                       THEN FieldsSet(app_configs[i], call', Given)
                                       ELSE app_configs[i]

\* C6 as stated: every supplied field, whatever its value, is set.
C6_Original == [][UpdateContract(Supplied)]_vars

\* C6 as amended: update returns false and changes nothing when the key is
\* absent; when it is present it sets exactly the fields supplied with a
\* non-empty value (a field supplied as the empty string is left as it was, like
\* an omitted one) and leaves the profile's other fields, every other profile,
\* the key set and current_app_key unchanged.
C6_UpdateSetsNonEmptySuppliedFields == [][UpdateContract(Truthy)]_vars

\* an update has just set the key and left the app_id supplied as "" alone
C6_Witness ==
    /\ pc = "returned" /\ call.op = "update" /\ ret \in {"True", "ok"}
    /\ call.app_id = "" /\ call.api_key = "os_v2_k2" /\ call.name = None
    /\ Lookup(app_configs, call.key).api_key = "os_v2_k2"
    /\ Lookup(app_configs, call.key).app_id # ""

(* ---------------------------------------------------------------------- *)
(* Properties of the classifier and of dispatch                            *)
(* ---------------------------------------------------------------------- *)

\* the endpoints of organization scope, as the documentation lists them
OrgScopePaths ==
    { <<"apps">>, <<"players", "/", "csv_export">>, <<"notifications", "/", "csv_export">> }

\* the endpoint is one of the paths, or one of them followed by "/" and anything
IsOrgScope(ep) ==
    \E p \in OrgScopePaths :
        \/ ep = p
        \/ /\ Len(ep) > Len(p)
           /\ \A i \in 1..Len(p) : ep[i] = p[i]
           /\ ep[Len(p) + 1] = "/"

\* C7: on every endpoint the classifier of the single-file server answers
\* organization scope exactly when the endpoint is "apps", "players/csv_export"
\* or "notifications/csv_export" or begins with one of them followed by "/",
\* and the classifier of the modular package gives the same answer.
C7_ClassifierMatchesOrgPaths ==
    (pc = "returned" /\ call.op = "classify")
       => /\ ret.mono = IsOrgScope(call.endpoint)
          /\ ret.mod = ret.mono
          /\ call.endpoint \in { <<"apps">>, <<"apps", "/", "123">>, <<"players", "/", "csv_export">>,
                                 <<"notifications", "/", "csv_export", "/", "x">> } => ret.mono
          /\ call.endpoint \in { <<"notifications">>, <<"templates", "/", "abc">> } => ~ret.mono

\* "notifications/csv_export/x" has just been classified as organization scope
C7_Witness ==
    /\ pc = "returned" /\ call.op = "classify"
    /\ call.endpoint = <<"notifications", "/", "csv_export", "/", "x">>
    /\ ret.mono /\ ret.mod

\* the scope the arguments of a dispatch resolve to: use_org_key when it is
\* given, the class of the endpoint when it is omitted
OrgScopeDispatch(c) ==
    c.use_org_key = "True" \/ (c.use_org_key = None /\ IsOrgScope(c.endpoint))

Dispatched == pc = "returned" /\ call.op = "dispatch"

\* C8: a dispatch that resolves to organization scope while no organization
\* credential is configured fails with MissingOrgCredential and issues no HTTP
\* request, whatever the registry holds.
C8_OrgScopeWithoutCredentialFails ==
    (Dispatched /\ OrgScopeDispatch(call) /\ ONESIGNAL_ORG_API_KEY = "")
       => (ret = "MissingOrgCredential" /\ http = <<>>)

\* "apps/123" with use_org_key omitted has just failed for want of the
\* organization key, with a profile configured and current
C8_Witness ==
    /\ Dispatched /\ call.use_org_key = None /\ call.endpoint = <<"apps", "/", "123">>
    /\ ONESIGNAL_ORG_API_KEY = "" /\ ret = "MissingOrgCredential" /\ http = <<>>
    /\ HasKey(app_configs, current_app_key)

\* C9: a dispatch of per-app scope made while the registry holds no profile
\* fails with NoCurrentApp and issues no HTTP request; once the registry holds
\* a profile (an add has succeeded), a per-app dispatch without explicit key
\* does not fail with NoCurrentApp.
C9_NoCurrentAppExactlyWhileEmpty ==
    (Dispatched /\ ~OrgScopeDispatch(call))
       => /\ app_configs = <<>> => (ret = "NoCurrentApp" /\ http = <<>>)
          /\ (app_configs # <<>> /\ call.key = None) => ret # "NoCurrentApp"

\* a per-app dispatch without explicit key has just gone out for "acme", a
\* profile only the add tool can have put into the registry
C9_Witness ==
    /\ Dispatched /\ call.key = None /\ ~OrgScopeDispatch(call)
    /\ Len(app_configs) = 1 /\ app_configs[1].key = "acme"
    /\ ret = "ok" /\ Len(http) = 1

\* the methods the documentation names
FiveMethods == {"GET", "POST", "PUT", "PATCH", "DELETE"}

\* C10 as stated: a method outside the five fails with UnsupportedMethod and
\* no request; one of the five is not rejected as unsupported.
C10_Original ==
    Dispatched
       => IF call.method \notin FiveMethods
          THEN ret = "UnsupportedMethod" /\ http = <<>>
          ELSE ret # "UnsupportedMethod"

\* the method as the transport branch compares it: as given in the single-file
\* server, upper-cased in the modular package
ComparedMethod(c) == IF impl = "mod" THEN Upper(c.method) ELSE c.method

\* C10 as amended: a dispatch whose method (as given in the single-file
\* server, upper-cased in the modular package) is not one of the five issues
\* no HTTP request and fails: with UnsupportedMethod, unless credential
\* selection, which comes first, has already failed with MissingOrgCredential
\* (organization scope, no organization key) or NoCurrentApp (per-app scope,
\* no profile resolved).  A dispatch with one of the five is not rejected as
\* unsupported.
C10_UnsupportedMethodIssuesNoRequest ==
    Dispatched
       => IF ComparedMethod(call) \notin FiveMethods
          THEN /\ http = <<>>
               /\ \/ ret = "UnsupportedMethod"
                  \/ /\ ret = "MissingOrgCredential"
                     /\ OrgScopeDispatch(call) /\ ONESIGNAL_ORG_API_KEY = ""
                  \/ /\ ret = "NoCurrentApp"
                     /\ ~OrgScopeDispatch(call) /\ ~HasKey(app_configs, call.key)
                     /\ call.key = None => app_configs = <<>>
          ELSE ret # "UnsupportedMethod"

\* a HEAD dispatch with a current profile has just been refused as unsupported
C10_Witness ==
    /\ Dispatched /\ call.method = "HEAD" /\ ~OrgScopeDispatch(call)
    /\ HasKey(app_configs, current_app_key)
    /\ ret = "UnsupportedMethod" /\ http = <<>>

\* a PUT dispatch to the endpoint "notifications" has returned
PutToNotifications ==
    Dispatched /\ call.endpoint = <<"notifications">> /\ call.method = "PUT"

\* C11 as stated: a PUT dispatch to "notifications" fails with
\* UnsupportedMethod and issues no HTTP request.
C11_Original == PutToNotifications => (ret = "UnsupportedMethod" /\ http = <<>>)

\* C11 as amended: a PUT dispatch to "notifications" is never refused as
\* unsupported; it issues no HTTP request only when credential selection has
\* failed (MissingOrgCredential, NoCurrentApp), and otherwise issues exactly
\* one PUT request to "notifications".
C11_PutIsSentNotRefused ==
    PutToNotifications
       => /\ ret # "UnsupportedMethod"
          /\ IF ret \in {"MissingOrgCredential", "NoCurrentApp"}
             THEN http = <<>>
             ELSE /\ Len(http) = 1
                  /\ http[1].method = "PUT" /\ http[1].endpoint = <<"notifications">>

\* a PUT to "notifications" under the current profile went out and succeeded
C11_Witness ==
    /\ PutToNotifications /\ call.key = None /\ ~OrgScopeDispatch(call)
    /\ ret = "ok" /\ Len(http) = 1 /\ http[1].method = "PUT"

\* the endpoint has a path segment "templates"
HasTemplatesSegment(endpoint) ==
    \E i \in 1..Len(endpoint) :
        /\ endpoint[i] = "templates"
        /\ i > 1 => endpoint[i - 1] = "/"
        /\ i < Len(endpoint) => endpoint[i + 1] = "/"

\* the request of the dispatch went out and was answered with `status`
Answered(status) ==
    Len(http) = 1 /\ ~http[1].response.fail /\ http[1].response.status = status

\* C12: a dispatch to an endpoint with a path segment "templates" that is
\* answered 404 returns the empty template list, a success value, and no
\* error.
C12_TemplateNotFoundIsEmptyList ==
    (Dispatched /\ HasTemplatesSegment(call.endpoint) /\ Answered(404))
       => ret = "EmptyTemplates"

\* the header the documentation prescribes for a credential: "Key <credential>"
\* for one that begins with "os_v2_", "Basic " + base64(credential + ":")
\* for any other
PrescribedHeader(credential) ==
    IF StartsWithOsV2(credential)
    THEN [scheme |-> "Key", credential |-> credential, b64 |-> FALSE]
    ELSE [scheme |-> "Basic", credential |-> credential, b64 |-> TRUE]

\* the credential of the scope the request was sent under: the organization
\* key, or the REST key of one of the profiles
ScopeCredential(req) ==
    IF req.use_org
    THEN req.authorization.credential = ONESIGNAL_ORG_API_KEY
    ELSE \E i \in 1..Len(app_configs) : req.authorization.credential = app_configs[i].api_key

\* C13: in both scopes and in both implementations, the Authorization header
\* of a request that went out is "Key <credential>" for a credential that
\* begins with "os_v2_" and "Basic " + base64(credential + ":") otherwise.
C13_HeaderFollowsCredentialStyle ==
    (Dispatched /\ Len(http) = 1)
       => /\ ScopeCredential(http[1])
          /\ http[1].authorization = PrescribedHeader(http[1].authorization.credential)

\* the endpoint begins with "apps/"
BeginsWithApps(endpoint) == Len(endpoint) >= 2 /\ endpoint[1] = "apps" /\ endpoint[2] = "/"

\* the profile a per-app dispatch resolves to: the one named by the call when
\* the registry has it, the current one otherwise
ResolvedProfile ==
    IF HasKey(app_configs, call.key) THEN Lookup(app_configs, call.key)
    ELSE Lookup(app_configs, current_app_key)

\* a per-app dispatch to an endpoint outside "apps/" has sent its request
PerAppRequestSent ==
    /\ Dispatched /\ ~OrgScopeDispatch(call) /\ ~BeginsWithApps(call.endpoint)
    /\ Len(http) = 1

\* C14: the request of a per-app dispatch to an endpoint that does not begin
\* with "apps/" carries the resolved profile's application id where the caller
\* gave none: in the body of a POST, PUT or PATCH that has a body, and in the
\* query parameters of a GET.
C14_RequestCarriesProfileAppId ==
    PerAppRequestSent
       => /\ (call.method \in {"POST", "PUT", "PATCH"} /\ call.data.dict /\ ~call.data.has)
                => http[1].json = WithAppId(ResolvedProfile.app_id)
          /\ (call.method = "GET" /\ ~call.params.has)
                => http[1].params = WithAppId(ResolvedProfile.app_id)

\* dictionary q carries the app_id dictionary p carried, or none if p had none
SameAppId(p, q) == q.has = p.has /\ q.app_id = p.app_id

\* what went out in place of dictionary p is p, or nothing at all
SentAsGiven(p, sent) == sent = p \/ sent = NoPayload

\* C15: enrichment never changes an app_id the caller supplied, in the body or
\* in the query parameters, and adds no app_id at all when the dispatch is of
\* organization scope or its endpoint begins with "apps/"; this is so for the
\* caller's dictionaries and for what the request carries.
C15_EnrichmentKeepsCallerAppId ==
    Dispatched
       => /\ call.params.has
                => /\ detail.params = call.params
                   /\ \A i \in 1..Len(http) : SentAsGiven(call.params, http[i].params)
          /\ call.data.has
                => /\ detail.data = call.data
                   /\ \A i \in 1..Len(http) : SentAsGiven(call.data, http[i].json)
          /\ (OrgScopeDispatch(call) \/ BeginsWithApps(call.endpoint))
                => /\ SameAppId(call.params, detail.params)
                   /\ SameAppId(call.data, detail.data)
                   /\ \A i \in 1..Len(http) :
                         /\ http[i].params.has => http[i].params = call.params
                         /\ http[i].json.has => http[i].json = call.data

\* a per-app POST whose body came with the caller's own app_id went out with
\* that app_id, which is not the profile's
C15_Witness ==
    /\ PerAppRequestSent /\ call.method = "POST"
    /\ call.data = WithAppId("app-9") /\ ResolvedProfile.app_id # "app-9"
    /\ http[1].json = WithAppId("app-9") /\ detail.data = WithAppId("app-9")

\* the profile that is current before the step
CurrentProfile == Lookup(app_configs, current_app_key)

\* the step is a per-app dispatch without explicit app key that sent a request
PerAppDispatchStep ==
    /\ Calls({"dispatch"}) /\ call'.key = None /\ ~OrgScopeDispatch(call')
    /\ Len(http') = 1

\* C16: after any sequence of registry operations, the request of a per-app
\* dispatch without explicit app key is authenticated with the REST key of
\* the profile that is current when the dispatch is made and carries that
\* profile's application id (in the body of a POST, in the query of a GET);
\* for the legacy key "key-1" the header is of the Basic scheme.
C16_DispatchUsesCurrentProfile ==
    [][PerAppDispatchStep
         => /\ HasKey(app_configs, current_app_key)
            /\ http'[1].authorization.credential = CurrentProfile.api_key
            /\ CurrentProfile.api_key = "key-1" => http'[1].authorization.scheme = "Basic"
            /\ (call'.method = "POST" /\ call'.data = EmptyDict)
                  => http'[1].json = WithAppId(CurrentProfile.app_id)
            /\ (call'.method = "GET" /\ ~call'.params.has)
                  => http'[1].params = WithAppId(CurrentProfile.app_id)]_vars

\* the registry holds the one profile add("acme", "app-1", "key-1", "Acme")
\* made, and a POST to "notifications" with a body without app_id went out
\* with app_id "app-1" in the body and a Basic header made from "key-1"
C16_Witness ==
    /\ app_configs = <<AppConfig("acme", "app-1", "key-1", "Acme")>>
    /\ current_app_key = "acme"
    /\ Dispatched /\ call.key = None /\ call.endpoint = <<"notifications">>
    /\ call.method = "POST" /\ call.data = EmptyDict
    /\ Len(http) = 1 /\ http[1].json = WithAppId("app-1")
    /\ http[1].authorization.scheme = "Basic" /\ http[1].authorization.credential = "key-1"

\* the body of the error response of the dispatch
ErrorBody == http[1].response.body

\* the value the documented priority order picks from a parsed error body:
\* `errors` (first element of a non-empty list, the string itself if it is a
\* string), else `error`, else `message`, else the reason phrase; an `errors`
\* that is empty or of no use does not count
PriorityValue(body, reason) ==
    IF body.json = "dict" /\ body.errors.type = "list" /\ body.errors.items # <<>>
    THEN body.errors.items[1]
    ELSE IF body.json = "dict" /\ body.errors.type = "str" /\ body.errors.repr # ""
    THEN body.errors.repr
    ELSE IF body.json = "dict" /\ body.error # None THEN body.error
    ELSE IF body.json = "dict" /\ body.message # None THEN body.message
    ELSE reason

\* the dispatch was answered with a non-2xx status and a JSON object as body
ParsedErrorReturned ==
    /\ Dispatched /\ ret = "ApiError" /\ Len(http) = 1
    /\ ErrorBody.json = "dict"

\* C17: the error message of a non-2xx response is taken from the parsed body
\* in strict priority: `errors`, else `error`, else `message`, else the HTTP
\* reason phrase; an `errors` field that is present but empty or unusable
\* falls through to `error`, then `message`, then the reason phrase.  (What
\* an implementation appends after the value, such as the status, is left
\* open.)
C17_ErrorMessagePriority ==
    ParsedErrorReturned
       => /\ Len(detail.message) >= 2
          /\ detail.message[1] = "Error: "
          /\ detail.message[2] = PriorityValue(ErrorBody, Reason(http[1].response.status))

\* the name of the credential scope a request was sent under
ScopeLabel(req) == IF req.use_org THEN "Organization API Key" ELSE "App REST API Key"

\* C18: the error of a dispatch answered 401 or 403 names the credential scope
\* that was used, organization key or per-app key, and that scope is the one
\* whose credential the Authorization header of the request carries.
C18_AuthFailureNamesScopeUsed ==
    (Dispatched /\ (Answered(401) \/ Answered(403)))
       => /\ ret = "ApiError"
          /\ detail.auth_type = ScopeLabel(http[1])
          /\ ScopeCredential(http[1])

\* C19: a dispatch issues at most one HTTP request; one that ends in a
\* transport failure or a non-2xx answer has issued exactly one, with no
\* second attempt.
C19_AtMostOneRequest ==
    Dispatched
       => /\ Len(http) <= 1
          /\ ret \in {"TransportError", "ApiError"} => Len(http) = 1

\* the one request of a dispatch met a transport failure and the dispatch
\* has returned TransportError
C19_Witness ==
    /\ Dispatched /\ ret = "TransportError"
    /\ Len(http) = 1 /\ http[1].response.fail

\* C20: no dispatch, whatever its arguments and its outcome, changes the
\* registry: the profiles, their fields and the current key are after the
\* dispatch what they were before it.
C20_DispatchLeavesRegistryAlone ==
    [][Calls({"dispatch"}) => RegistryUnchanged]_vars

\* a dispatch naming a profile that is not the current one has gone out under
\* that profile, and the other profile is still the current one
C20_Witness ==
    /\ Dispatched /\ HasKey(app_configs, call.key) /\ call.key # current_app_key
    /\ HasKey(app_configs, current_app_key)
    /\ Len(http) = 1 /\ ~http[1].use_org
    /\ http[1].authorization.credential = Lookup(app_configs, call.key).api_key

\* the server has just been initialized under the environment call.env
Initialized == call.op = "init"

\* rank of a profile key in the priority order of initialization: primary
\* brand, secondary brand, generic fallback
Priority(key) ==
    CASE key \in {"aibookcraft", "mandible"} -> 1
      [] key = "weirdbrains" -> 2
      [] OTHER -> 3

\* the non-empty values the environment offers as identifiers and as keys
EnvAppIds(env) == {env.PRIMARY_APP_ID, env.WEIRDBRAINS_APP_ID, env.APP_ID} \ {""}

EnvApiKeys(env) == {env.PRIMARY_API_KEY, env.WEIRDBRAINS_API_KEY, env.API_KEY} \ {""}

\* C22: initialization completes under every combination of present and
\* absent candidate profiles; every profile it added has a non-empty
\* identifier and a non-empty key taken from the environment; currentKey is
\* the key of the added profile that comes first in priority order, or the
\* registry is empty and currentKey unset when no candidate qualified.
C22_InitializationCompletes ==
    Initialized
       => /\ started
          /\ \A i \in 1..Len(app_configs) :
                /\ app_configs[i].app_id \in EnvAppIds(call.env)
                /\ app_configs[i].api_key \in EnvApiKeys(call.env)
          /\ IF app_configs = <<>>
             THEN current_app_key = None
             ELSE /\ HasKey(app_configs, current_app_key)
                  /\ \A i \in 1..Len(app_configs) :
                        Priority(current_app_key) <= Priority(app_configs[i].key)

\* a dispatch with one of the five supported methods has sent its request
SupportedRequestSent ==
    /\ Dispatched /\ Len(http) = 1
    /\ call.method \in FiveMethods

\* C23: for each of GET, POST, PUT, PATCH and DELETE the request a dispatch
\* issues carries the resolved query parameters, the caller's own app_id or
\* the injected one included, and carries the body when the caller gave one.
C23_RequestCarriesParamsAndBody ==
    SupportedRequestSent
       => /\ SameAppId(detail.params, http[1].params)
          /\ call.data.dict => http[1].json = detail.data

\* a dispatch of per-app scope has returned
PerAppReturned == Dispatched /\ ~OrgScopeDispatch(call)

\* C24: a per-app dispatch targets the profile named by the explicit app key
\* when one is given, whichever profile is current, and the current profile
\* otherwise; it fails with NoCurrentApp only when neither the explicit key
\* nor the current key resolves to a profile of the registry.
C24_ExplicitKeyElseCurrent ==
    PerAppReturned
       => /\ (HasKey(app_configs, call.key) /\ Len(http) = 1)
                => http[1].authorization.credential = Lookup(app_configs, call.key).api_key
          /\ (call.key = None /\ Len(http) = 1)
                => http[1].authorization.credential = Lookup(app_configs, current_app_key).api_key
          /\ ret = "NoCurrentApp"
                => (~HasKey(app_configs, call.key) /\ ~HasKey(app_configs, current_app_key))

\* the error names the status: as status_code of the returned dictionary or
\* within the message of the raised error
NamesStatus(text) ==
    detail.status_code = 404 \/ \E i \in 1..Len(detail.message) : detail.message[i] = text

\* C25: a dispatch answered 404 on an endpoint with no path segment equal to
\* "templates", one where "templates" is only part of a longer segment
\* included, returns an error with status 404 and never the empty template
\* list.
C25_CarveOutOnlyForTemplatesSegment ==
    (Dispatched /\ ~HasTemplatesSegment(call.endpoint) /\ Answered(404))
       => ret = "ApiError" /\ NamesStatus("404")

\* C29: in a started server, after any sequence of add, update, remove and
\* switch calls, currentKey is unset only when the registry is empty: a
\* registry with at least one profile has a current profile, and a per-app
\* dispatch without explicit key made on it does not fail with NoCurrentApp.
C29_CurrentUnsetOnlyWhenEmpty ==
    started
       => /\ ~HasKey(app_configs, current_app_key) => app_configs = <<>>
          /\ (PerAppReturned /\ call.key = None /\ app_configs # <<>>) => ret # "NoCurrentApp"

\* the registry holds two profiles, one of them current, and a per-app
\* dispatch without explicit key has gone out
C29_Witness ==
    /\ started /\ Len(app_configs) = 2 /\ HasKey(app_configs, current_app_key)
    /\ PerAppReturned /\ call.key = None
    /\ ret # "NoCurrentApp" /\ Len(http) = 1

\* ---------------------------------------------------------------------------
\* C21: whatever makes a dispatch fail (no current profile, no organization
\* credential, an unsupported method, an upstream error status, a transport
\* failure), the tool that dispatched hands its caller an error value: no
\* tool call ends with the failure raised out of the tool.
\* ---------------------------------------------------------------------------
ToolReturned == pc = "returned" /\ call.op = "tool"

C26_ToolsUseClassifierScope ==
    ToolReturned =>
        \A n \in 1..Len(http) : http[n].use_org = IsOrgScope(http[n].endpoint)

\* ---------------------------------------------------------------------------
\* C28: delete_template reports success only when the upstream answered one
\* of its DELETE requests with a 2xx status; when the answers were 404 it
\* does not report success.
\* ---------------------------------------------------------------------------
DeleteAnswered2xx ==
    \E n \in 1..Len(http) :
        /\ http[n].method = "DELETE" /\ ~http[n].response.fail
        /\ http[n].response.status \in 200..299

C28_DeleteSuccessNeeds2xx ==
    (ToolReturned /\ call.tool.name = "delete_template" /\ ret.value = "ok") => DeleteAnswered2xx

\* ---------------------------------------------------------------------------
\* C30: a tool that reads the current profile to build its endpoint or its
\* payload and then dispatches per-app sends a request whose credential, whose
\* app_id (in the body or the query) and whose apps/{app_id} path segment all
\* belong to the one profile that was current when the tool was called,
\* whatever switch and remove calls of other callers come in between.
\* ---------------------------------------------------------------------------
ToolReadAndSent ==
    /\ pc = "idle" /\ pc' = "returned" /\ call'.op = "tool"
    /\ call'.tool.reads_current /\ Len(http') >= 1

FromProfile(req, profile) ==
    /\ req.authorization.credential = profile.api_key
    /\ req.json.has => req.json.app_id = profile.app_id
    /\ req.params.has => req.params.app_id = profile.app_id
    /\ BeginsWithApps(req.endpoint) => req.endpoint[3] = profile.app_id

ReadStep == pc = "idle" /\ pc' = "returned" /\ call'.op = "read"

====
